---- MODULE Spec2Model ----
(***************************************************************************)
(* path_abs: PathAbs, the absolute canonicalized path that is guaranteed   *)
(* (when created) to exist, with its narrowings PathFile and PathDir, the  *)
(* directory listing that yields PathType values and the serde encoding.   *)
(*                                                                         *)
(* The state is the filesystem the library calls through, the path value   *)
(* the caller holds, the record of the last call and, for the listing and  *)
(* the encoding, the open ListDir cursor and the text on the wire.         *)
(***************************************************************************)
EXTENDS Integers, Sequences, FiniteSets, TLC

\* ------------------------------------------------------------ bounds
\* longest path text (in components) handed to new / mock
MaxLen == 2
\* most entries (besides the root) of a filesystem
MaxEntries == 3
\* ------------------------------------------------------------ paths
Names == {"a", "b"}
CurDir == "."
ParentDir == ".."
Comps == Names \cup {CurDir, ParentDir}

\* a std::path::PathBuf: whether the text starts with the root, and its
\* components as written
Path(abs, comps) == [abs |-> abs, comps |-> comps]
EmptyPath == Path(FALSE, << >>)
RootPath == Path(TRUE, << >>)

\* the path texts callers hand in
Inputs == {Path(abs, cs) : abs \in BOOLEAN, cs \in UNION {[1..n -> Comps] : n \in 0..MaxLen}}

\* the filesystem's nodes: the root, its children and grandchildren
Root == << >>
NonRoot == {<<x>> : x \in Names} \cup {<<x, y>> : x \in Names, y \in Names}
Nodes == {Root} \cup NonRoot
\* the current working directory of the process: the root, which no actor
\* can remove
Cwd == Root

Front(s) == SubSeq(s, 1, Len(s) - 1)
Last(s) == s[Len(s)]

RECURSIVE DropCurDir(_)
DropCurDir(cs) ==
    IF cs = << >> THEN << >>
    ELSE IF Head(cs) = CurDir THEN DropCurDir(Tail(cs))
    ELSE <<Head(cs)>> \o DropCurDir(Tail(cs))

\* Path::components(): a "." is dropped, but for the one that starts a
\* relative path
Components(p) ==
    IF p.comps = << >> THEN p
    ELSE IF ~p.abs /\ Head(p.comps) = CurDir
         THEN Path(FALSE, <<CurDir>> \o DropCurDir(Tail(p.comps)))
         ELSE Path(p.abs, DropCurDir(p.comps))

\* PathBuf's PartialEq, which PathAbs derives: component by component
PathEq(p, q) == Components(p) = Components(q)

\* Path::parent(): the path without its last component; None for the root
\* and for the empty path
HasParent(p) == Components(p).comps # << >>
Parent(p) == Path(p.abs, Front(Components(p).comps))

\* ------------------------------------------------------- filesystem
Absent == [kind |-> "none", target |-> Root]
LinkTargets == {<<x>> : x \in Names}
EntryVals == {[kind |-> k, target |-> Root] : k \in {"file", "dir"}}
                \cup {[kind |-> "link", target |-> t] : t \in LinkTargets}

Kind(f, n) == IF n = Root THEN "dir" ELSE IF n \in NonRoot THEN f[n].kind ELSE "none"

\* every entry lies in a directory
WellFormed(f) == \A n \in NonRoot : f[n].kind # "none" => Kind(f, Front(n)) = "dir"

IsPrefix(s, t) == Len(s) <= Len(t) /\ SubSeq(t, 1, Len(s)) = s

\* results of the fallible calls: io::Result<PathBuf>
Ok(p) == [ok |-> TRUE, err |-> "", path |-> p]
Err(e) == [ok |-> FALSE, err |-> e, path |-> EmptyPath]

\* symbolic links one resolution follows before it fails with ELOOP: the
\* limit of realpath(3) and of the kernel
MaxFollow == 40

\* POSIX path resolution, as realpath(3) performs it, one component at a
\* time: at node cur, the components rest still to walk, n symbolic links
\* followed so far; res is the outcome once done
Walking(cur, rest, n) == [done |-> FALSE, cur |-> cur, rest |-> rest, n |-> n, res |-> Err("")]
Walked(r) == [done |-> TRUE, cur |-> Root, rest |-> << >>, n |-> 0, res |-> r]

WalkStep(f, w) ==
    IF w.done THEN w
    ELSE IF w.rest = << >> THEN Walked(Ok(Path(TRUE, w.cur)))
    ELSE IF Kind(f, w.cur) # "dir" THEN Walked(Err("NotADirectory"))
    ELSE LET c == Head(w.rest)
             next == w.cur \o <<c>>
         IN  IF c = CurDir THEN Walking(w.cur, Tail(w.rest), w.n)
             ELSE IF c = ParentDir
                  THEN Walking(IF w.cur = Root THEN Root ELSE Front(w.cur), Tail(w.rest), w.n)
             ELSE IF Kind(f, next) = "none" THEN Walked(Err("NotFound"))
             ELSE IF Kind(f, next) = "link"
                  THEN IF w.n >= MaxFollow THEN Walked(Err("FilesystemLoop"))
                       ELSE Walking(Root, f[next].target \o Tail(w.rest), w.n + 1)
             ELSE Walking(next, Tail(w.rest), w.n)

\* up to 2^k steps of the resolution, stopping when it is done
RECURSIVE WalkRun(_, _, _)
WalkRun(f, w, k) ==
    IF w.done THEN w
    ELSE IF k = 0 THEN WalkStep(f, w)
    ELSE WalkRun(f, WalkRun(f, w, k - 1), k - 1)

\* the resolution run to its end: it takes a step for each component and one
\* for each link followed, fewer than 2^7 with at most MaxFollow links
Walk(f, cur, rest, n) == WalkRun(f, Walking(cur, rest, n), 7).res

\* Path::canonicalize(): the empty path names nothing
Canonicalize(f, p) ==
    IF p = EmptyPath THEN Err("NotFound")
    ELSE Walk(f, IF p.abs THEN Root ELSE Cwd, p.comps, 0)

\* Path::exists / is_file / is_dir: a stat that follows symbolic links
Stat(f, p) ==
    LET r == Canonicalize(f, p)
    IN  IF r.ok THEN Kind(f, r.path.comps) ELSE "none"
Exists(f, p) == Stat(f, p) # "none"
IsFile(f, p) == Stat(f, p) = "file"
IsDir(f, p) == Stat(f, p) = "dir"

\* ------------------------------------------------------- the library
\* Option<PathDir>, in the shape of the results
Some(p) == Ok(p)
None == Err("None")

\* PathAbs::new without the canonicalize call: the path wrapped once it exists
PathAbs_new_NoCanon(f, p) == IF Exists(f, p) THEN Ok(p) ELSE Canonicalize(f, p)
\* PathAbs::new with the error swallowed: the path wrapped as it stands
PathAbs_new_Swallow(f, p) ==
    LET r == Canonicalize(f, p)
    IN  IF r.ok THEN Ok(r.path) ELSE Ok(p)

\* PathAbs::new: Ok(PathAbs(path.as_ref().canonicalize()?))
PathAbs_new(f, p) ==
    LET r == Canonicalize(f, p)
    IN  IF r.ok THEN Ok(r.path) ELSE r

\* PathFile::from_abs and PathDir::from_abs: the narrowing checks
PathFile_from_abs(f, abs) == IF IsFile(f, abs) THEN Ok(abs) ELSE Err("InvalidInput")
PathDir_from_abs(f, abs) == IF IsDir(f, abs) THEN Ok(abs) ELSE Err("InvalidInput")

\* into_file / into_dir wrapping self without the from_abs check
PathAbs_into_file_Unchecked(f, abs) == Ok(abs)

\* PathAbs::into_file, PathAbs::into_dir
PathAbs_into_file(f, abs) == PathFile_from_abs(f, abs)
PathAbs_into_dir(f, abs) == PathDir_from_abs(f, abs)

\* parent_dir wrapping self.to_path_buf() in place of the parent
PathAbs_parent_dir_Self(p) == IF HasParent(p) THEN Ok(p) ELSE Err("None")
\* parent_dir taking the parent twice
PathAbs_parent_dir_Twice(p) ==
    IF HasParent(p) THEN Ok(IF HasParent(Parent(p)) THEN Parent(Parent(p)) ELSE Parent(p))
    ELSE Err("None")

\* PathAbs::parent_dir: the parent wrapped as it stands, nothing checked
PathAbs_parent_dir(p) == IF HasParent(p) THEN Some(Parent(p)) ELSE None

\* mock joining the text to the root
PathAbs_mock_Absolute(p) == Path(TRUE, p.comps)

\* PathAbs::mock: the text wrapped as it stands
PathAbs_mock(p) == p

\* filesystem calls each operation makes
SysNew == 1
SysInto == 1
SysParentDir == 0
SysMock == 0

\* the narrowing of a listed child that takes every entry for a file
EntryKind_of_AllFiles(f, child) ==
    LET r == Canonicalize(f, child)
    IN  IF ~r.ok THEN [ok |-> FALSE, err |-> r.err, ty |-> "none", path |-> EmptyPath]
        ELSE [ok |-> TRUE, err |-> "", ty |-> "file", path |-> child]

\* the EntryKind of a listed child: the child's path as the directory
\* reports it, narrowed into File or Dir by what a stat of it finds; the
\* stat's error when it finds nothing
EntryKind_of(f, child) ==
    LET r == Canonicalize(f, child)
    IN  IF ~r.ok THEN [ok |-> FALSE, err |-> r.err, ty |-> "none", path |-> EmptyPath]
        ELSE IF PathFile_from_abs(f, child).ok
             THEN [ok |-> TRUE, err |-> "", ty |-> "file", path |-> child]
        ELSE IF PathDir_from_abs(f, child).ok
             THEN [ok |-> TRUE, err |-> "", ty |-> "dir", path |-> child]
        ELSE [ok |-> FALSE, err |-> "InvalidInput", ty |-> "none", path |-> EmptyPath]

\* Path::join of a directory and a child's name: DirEntry::path()
Join(d, x) == Path(d.abs, d.comps \o <<x>>)

\* fs::read_dir: the names in the directory d resolves to
ReadDir(f, d) ==
    LET r == Canonicalize(f, d)
    IN  IF ~r.ok THEN {}
        ELSE {x \in Names : Kind(f, r.path.comps \o <<x>>) # "none"}

\* ------------------------------------------------------- encoding
\* to_stfu8 of a path: its text, character by character
CompText(c) == IF c = ParentDir THEN <<".", ".">> ELSE <<c>>
RECURSIVE JoinText(_)
JoinText(cs) ==
    IF cs = << >> THEN << >>
    ELSE IF Len(cs) = 1 THEN CompText(cs[1])
    ELSE CompText(Head(cs)) \o <<"/">> \o JoinText(Tail(cs))
to_stfu8(p) == (IF p.abs THEN <<"/">> ELSE << >>) \o JoinText(p.comps)

\* from_stfu8 and PathBuf::from: the text cut at its separators
CompOf(seg) == IF seg = <<".", ".">> THEN ParentDir ELSE seg[1]
RECURSIVE Segments(_, _)
Segments(t, seg) ==
    LET done == IF seg = << >> THEN << >> ELSE <<CompOf(seg)>>
    IN  IF t = << >> THEN done
        ELSE IF Head(t) = "/" THEN done \o Segments(Tail(t), << >>)
        ELSE Segments(Tail(t), Append(seg, Head(t)))
from_stfu8(t) == Path(t # << >> /\ Head(t) = "/", Segments(t, << >>))

\* Deserialize for PathAbs, PathFile, PathDir: the text is decoded and the
\* type's checking constructor run on it, whatever made the value encoded
Deserialize(f, ty, t) ==
    LET r == PathAbs_new(f, from_stfu8(t))
    IN  IF ~r.ok THEN r
        ELSE IF ty = "file" THEN PathFile_from_abs(f, r.path)
        ELSE IF ty = "dir" THEN PathDir_from_abs(f, r.path)
        ELSE r

\* ------------------------------------------------------------ state
VARIABLES
    fs,      \* the filesystem: each node's kind and, for a link, its target
    held,    \* the path value the caller holds: its type, path and origin
    stale,   \* the filesystem changed since new constructed what is held
    last,    \* the last call: operation, argument, receiver, result
    lister,  \* the ListDir cursor: directory, names to come, items yielded,
             \* and, of the time the directory was read, what each child
             \* was, the nodes that made it so, the children disturbed
             \* since and whether nothing changed at all
    wire     \* the serialized text and the value it was made from

vars == <<fs, held, stale, last, lister, wire>>

Value(ty, p, m) == [ty |-> ty, path |-> p, mock |-> m]
NoValue == Value("none", EmptyPath, FALSE)
NoCall == [op |-> "none", arg |-> EmptyPath, self |-> NoValue, res |-> None, sys |-> 0, fresh |-> TRUE]
Call(op, arg, self, res, sys) ==
    [op |-> op, arg |-> arg, self |-> self, res |-> res, sys |-> sys, fresh |-> ~stale]
Closed == [open |-> FALSE, dir |-> NoValue, names |-> {}, remaining |-> {}, items |-> << >>,
           then |-> << >>, reach |-> << >>, disturbed |-> {}, clean |-> TRUE]
NoWire == [full |-> FALSE, text |-> << >>, v |-> NoValue]

Idle == ~lister.open /\ ~wire.full
\* the caller holds nothing and starts a new chain of calls: one value is
\* followed at a time, from the path text to the drop of what came of it
Start == Idle /\ held = NoValue /\ last = NoCall

Init ==
    /\ \E S \in SUBSET NonRoot :
         /\ Cardinality(S) <= MaxEntries
         /\ \E e \in [S -> EntryVals] :
              LET f == [n \in NonRoot |-> IF n \in S THEN e[n] ELSE Absent]
              IN  WellFormed(f) /\ fs = f
    /\ held = NoValue
    /\ stale = FALSE
    /\ last = NoCall
    /\ lister = Closed
    /\ wire = NoWire

\* PathAbs::new(x)
New(x) ==
    /\ Start
    /\ LET r == PathAbs_new(fs, x)
       IN  /\ last' = Call("new", x, NoValue, r, SysNew)
           /\ held' = IF r.ok THEN Value("abs", r.path, FALSE) ELSE NoValue
    /\ stale' = FALSE
    /\ UNCHANGED <<fs, lister, wire>>

\* PathAbs::mock(x)
Mock(x) ==
    /\ Start
    /\ last' = Call("mock", x, NoValue, Ok(PathAbs_mock(x)), SysMock)
    /\ held' = Value("abs", PathAbs_mock(x), TRUE)
    /\ stale' = FALSE
    /\ UNCHANGED <<fs, lister, wire>>

\* held.into_file(): the PathAbs is consumed
IntoFile ==
    /\ Idle
    /\ held.ty = "abs"
    /\ LET r == PathAbs_into_file(fs, held.path)
       IN  /\ last' = Call("into_file", held.path, held, r, SysInto)
           /\ held' = IF r.ok THEN Value("file", r.path, held.mock) ELSE NoValue
    /\ UNCHANGED <<fs, stale, lister, wire>>

\* held.into_dir(): the PathAbs is consumed
IntoDir ==
    /\ Idle
    /\ held.ty = "abs"
    /\ LET r == PathAbs_into_dir(fs, held.path)
       IN  /\ last' = Call("into_dir", held.path, held, r, SysInto)
           /\ held' = IF r.ok THEN Value("dir", r.path, held.mock) ELSE NoValue
    /\ UNCHANGED <<fs, stale, lister, wire>>

\* held.parent_dir(), on a PathAbs or, through Deref, a PathFile or PathDir
ParentDirCall ==
    /\ Idle
    /\ held.ty # "none"
    /\ LET r == PathAbs_parent_dir(held.path)
       IN  /\ last' = Call("parent_dir", held.path, held, r, SysParentDir)
           /\ held' = IF r.ok THEN Value("dir", r.path, held.mock) ELSE held
    /\ UNCHANGED <<fs, stale, lister, wire>>

\* the filesystem once the entry at n, with all below it, is gone
Without(f, n) == [m \in NonRoot |-> IF IsPrefix(n, m) THEN Absent ELSE f[m]]

\* the entries of a filesystem
Entries(f) == {m \in NonRoot : f[m].kind # "none"}

\* the filesystem once every node of S is an entry of kind k
With(f, S, k) == [m \in NonRoot |-> IF m \in S THEN [kind |-> k, target |-> Root] ELSE f[m]]

\* the nodes the classification of the node c goes through: c and, where
\* c is a symbolic link, the nodes the chain of links leads over
RECURSIVE Chain(_, _, _)
Chain(f, c, k) ==
    IF k = 0 \/ Kind(f, c) # "link" THEN {c}
    ELSE {c} \cup Chain(f, f[c].target, k - 1)

\* a change of the nodes D disturbs a child classified by the nodes R: a
\* node of D lies on, above or below a node of R
Disturbs(R, D) == \E n \in D : \E m \in R : IsPrefix(n, m) \/ IsPrefix(m, n)

\* what a change of the filesystem to g leaves of the caller's state: a
\* genuine value held or in flight is now older than the filesystem, and an
\* open listing has the children it disturbs noted
Changed(g) ==
    /\ fs' = g
    /\ stale' = ((held.ty # "none" /\ ~held.mock) \/ (wire.full /\ ~wire.v.mock))
    /\ last' = NoCall
    /\ lister' = IF lister.open
                 THEN [lister EXCEPT
                         !.clean = FALSE,
                         !.disturbed = @ \cup
                            {x \in lister.names :
                               Disturbs(lister.reach[x], {m \in NonRoot : fs[m] # g[m]})}]
                 ELSE lister
    /\ UNCHANGED <<held, wire>>

\* std::fs::remove_dir_all(n): a directory goes with all below it, a
\* symbolic link goes alone (it is not followed), a regular file makes the
\* call fail with NotADirectory and stays
RemoveDirAll(n) ==
    /\ Kind(fs, n) \in {"dir", "link"}
    /\ Changed(Without(fs, n))

\* std::fs::remove_file(n): a regular file or a symbolic link is unlinked, a
\* directory makes the call fail and stays
RemoveFile(n) ==
    /\ Kind(fs, n) \in {"file", "link"}
    /\ Changed(Without(fs, n))

\* PathFile::create of a path that resolves to the absent node n of an
\* existing directory: the file comes to exist (the handle it returns is
\* dropped)
CreateFile(n) ==
    /\ Kind(fs, n) = "none" /\ Kind(fs, Front(n)) = "dir"
    /\ Cardinality(Entries(fs)) < MaxEntries
    /\ Changed(With(fs, {n}, "file"))

\* PathDir::create of a path that resolves to the absent node n of an
\* existing directory: one directory level comes to exist
CreateDir(n) ==
    /\ Kind(fs, n) = "none" /\ Kind(fs, Front(n)) = "dir"
    /\ Cardinality(Entries(fs)) < MaxEntries
    /\ Changed(With(fs, {n}, "dir"))

\* PathDir::create_all of a path that resolves to the absent node n: every
\* missing level down to n comes to exist
CreateAll(n) ==
    LET missing == {m \in NonRoot : IsPrefix(m, n) /\ Kind(fs, m) = "none"}
    IN  /\ n \in missing
        /\ \A m \in NonRoot : IsPrefix(m, n) => Kind(fs, m) \in {"dir", "none"}
        /\ Cardinality(Entries(fs)) + Cardinality(missing) <= MaxEntries
        /\ Changed(With(fs, missing, "dir"))

\* the caller drops what it holds
Drop ==
    /\ Idle
    /\ held # NoValue \/ last # NoCall
    /\ held' = NoValue
    /\ last' = NoCall
    /\ stale' = FALSE
    /\ UNCHANGED <<fs, lister, wire>>

Next ==
    \/ Start /\ \E x \in Inputs : New(x)
    \/ Start /\ \E x \in Inputs : Mock(x)
    \/ IntoFile
    \/ IntoDir
    \/ ParentDirCall
    \/ Drop
    \/ \E n \in NonRoot : RemoveDirAll(n)
    \/ \E n \in NonRoot : RemoveFile(n)
    \/ \E n \in NonRoot : CreateFile(n)
    \/ \E n \in NonRoot : CreateDir(n)
    \/ \E n \in NonRoot : CreateAll(n)

Spec == Init /\ [][Next]_vars

\* ---------------------------------------------------------- listing
Item(x, r) == [name |-> x, ok |-> r.ok, err |-> r.err, ty |-> r.ty, path |-> r.path]

\* PathDir::list: fs::read_dir(self)?, wrapped in a ListDir
List ==
    /\ Idle
    /\ held.ty = "dir"
    /\ IF IsDir(fs, held.path)
       THEN /\ lister' = [open |-> TRUE, dir |-> held,
                          names |-> ReadDir(fs, held.path),
                          remaining |-> ReadDir(fs, held.path), items |-> << >>,
                          then |-> [x \in ReadDir(fs, held.path) |->
                                      Item(x, EntryKind_of(fs, Join(held.path, x)))],
                          reach |-> [x \in ReadDir(fs, held.path) |->
                                      Chain(fs, Canonicalize(fs, held.path).path.comps \o <<x>>,
                                            Cardinality(Names) + 1)],
                          disturbed |-> {}, clean |-> TRUE]
            /\ last' = Call("list", held.path, held, Ok(held.path), 1)
       ELSE /\ lister' = lister
            /\ last' = Call("list", held.path, held, Err("NotFound"), 1)
    /\ UNCHANGED <<fs, held, stale, wire>>

\* the next item of a listing that ends at the first entry that fails
ListNext_Abort(x) ==
    /\ lister.open
    /\ x \in lister.remaining
    /\ LET r == EntryKind_of(fs, Join(lister.dir.path, x))
       IN  lister' = [lister EXCEPT
                        !.remaining = IF r.ok THEN @ \ {x} ELSE {},
                        !.items = Append(@, Item(x, r))]
    /\ UNCHANGED <<fs, held, stale, last, wire>>

\* the next item of the listing, the directory reporting x: the child
\* narrowed on its own, an error item or not
ListNext(x) ==
    /\ lister.open
    /\ x \in lister.remaining
    /\ lister' = [lister EXCEPT
                    !.remaining = @ \ {x},
                    !.items = Append(@, Item(x, EntryKind_of(fs, Join(lister.dir.path, x))))]
    /\ UNCHANGED <<fs, held, stale, last, wire>>

\* the listing is at its end and the cursor is dropped
ListEnd ==
    /\ lister.open
    /\ lister.remaining = {}
    /\ lister' = Closed
    /\ UNCHANGED <<fs, held, stale, last, wire>>

NextList ==
    \/ Start /\ \E x \in Inputs : New(x)
    \/ IntoDir
    \/ ParentDirCall
    \/ Drop
    \/ List
    \/ \E x \in Names : ListNext(x)
    \/ ListEnd
    \/ \E n \in NonRoot : RemoveDirAll(n)
    \/ \E n \in NonRoot : RemoveFile(n)
    \/ \E n \in NonRoot : CreateFile(n)
    \/ \E n \in NonRoot : CreateDir(n)
    \/ \E n \in NonRoot : CreateAll(n)

SpecList == Init /\ [][NextList]_vars

\* ---------------------------------------------------- serialization
\* Serialize: the path as stfu8 text
Serialize ==
    /\ Idle
    /\ held.ty # "none"
    /\ wire' = [full |-> TRUE, text |-> to_stfu8(held.path), v |-> held]
    /\ last' = Call("serialize", held.path, held, Ok(held.path), 0)
    /\ held' = NoValue
    /\ UNCHANGED <<fs, stale, lister>>

\* Deserialize: the text decoded and handed to the constructor
DeserializeCall ==
    /\ wire.full
    /\ LET r == Deserialize(fs, wire.v.ty, wire.text)
       IN  /\ last' = Call("deserialize", from_stfu8(wire.text), wire.v, r, 1)
           /\ held' = IF r.ok THEN Value(wire.v.ty, r.path, FALSE) ELSE NoValue
    /\ wire' = NoWire
    /\ stale' = FALSE
    /\ UNCHANGED <<fs, lister>>

NextSer ==
    \/ Start /\ \E x \in Inputs : New(x)
    \/ Start /\ \E x \in Inputs : Mock(x)
    \/ IntoFile
    \/ IntoDir
    \/ ParentDirCall
    \/ Drop
    \/ Serialize
    \/ DeserializeCall
    \/ \E n \in NonRoot : RemoveDirAll(n)
    \/ \E n \in NonRoot : RemoveFile(n)
    \/ \E n \in NonRoot : CreateFile(n)
    \/ \E n \in NonRoot : CreateDir(n)
    \/ \E n \in NonRoot : CreateAll(n)

SpecSer == Init /\ [][NextSer]_vars

\* ----------------------------------------------------------- claims
\* a canonical absolute path: from the root, through directories that are no
\* links, by name, to an entry that is no link
IsCanonical(f, p) ==
    /\ p.abs
    /\ \A i \in 1..Len(p.comps) :
         /\ p.comps[i] \in Names
         /\ Kind(f, SubSeq(p.comps, 1, i)) \in (IF i < Len(p.comps) THEN {"dir"} ELSE {"file", "dir"})

\* what PathAbs::new(p).into_dir() yields
NewIntoDir(f, p) ==
    LET r == PathAbs_new(f, p)
    IN  IF r.ok THEN PathAbs_into_dir(f, r.path) ELSE r

\* two results agree: both fail, or both succeed with equal paths
SameResult(r, q) == r.ok = q.ok /\ (r.ok => PathEq(r.path, q.path))

\* C1: for every path that exists when new is called, new succeeds, the
\* wrapped path is absolute and canonical, and new of the wrapped path gives
\* an equal value.
C1_NewCanonical ==
    last.op = "new" /\ Exists(fs, last.arg) =>
        /\ last.res.ok
        /\ held = Value("abs", last.res.path, FALSE)
        /\ IsCanonical(fs, held.path)
        /\ PathAbs_new(fs, held.path).ok
        /\ PathEq(PathAbs_new(fs, held.path).path, held.path)

\* new succeeded on a relative path whose first component is a symbolic link
C1_Witness ==
    /\ last.op = "new" /\ last.res.ok
    /\ ~last.arg.abs /\ last.arg.comps # << >>
    /\ Kind(fs, <<Head(last.arg.comps)>>) = "link"

\* C2: for every path that does not exist when new is called, new returns
\* the canonicalization's error as it is and constructs no value.
C2_NewFails ==
    last.op = "new" /\ ~Exists(fs, last.arg) =>
        /\ ~last.res.ok
        /\ last.res = Canonicalize(fs, last.arg)
        /\ last.res.err \in {"NotFound", "NotADirectory", "FilesystemLoop"}
        /\ held = NoValue

\* new failed with NotFound on a name that is not there
C2_Witness ==
    /\ last.op = "new" /\ last.res = Err("NotFound")
    /\ last.arg.comps # << >> /\ Last(last.arg.comps) \in Names

\* C3: into_file of a PathAbs made of a directory fails, into_dir of one
\* made of a regular file fails, both with the kind-mismatch error; into_file
\* succeeds only on a regular file and into_dir only on a directory.
C3_Narrowing ==
    /\ last.op = "into_file" /\ ~last.self.mock /\ last.fresh
         /\ Kind(fs, last.self.path.comps) = "dir"
         => last.res = Err("InvalidInput") /\ held = NoValue
    /\ last.op = "into_dir" /\ ~last.self.mock /\ last.fresh
         /\ Kind(fs, last.self.path.comps) = "file"
         => last.res = Err("InvalidInput") /\ held = NoValue
    /\ last.op = "into_file" /\ last.res.ok
         => Stat(fs, last.self.path) = "file" /\ held = Value("file", last.self.path, last.self.mock)
    /\ last.op = "into_dir" /\ last.res.ok
         => Stat(fs, last.self.path) = "dir" /\ held = Value("dir", last.self.path, last.self.mock)

\* into_file failed on the PathAbs of an existing directory
C3_Witness ==
    /\ last.op = "into_file" /\ ~last.res.ok
    /\ ~last.self.mock /\ last.fresh
    /\ Kind(fs, last.self.path.comps) = "dir" /\ last.self.path # RootPath

\* C4 as stated: parent_dir of any existing path that is not the root makes
\* no filesystem call and returns Some(d), d equal to what
\* PathAbs::new(parent).into_dir() yields; None only for the root.
C4_Original ==
    last.op = "parent_dir" /\ Exists(fs, last.self.path) =>
        /\ last.sys = 0
        /\ ~last.res.ok => Canonicalize(fs, last.self.path) = Ok(RootPath)
        /\ Canonicalize(fs, last.self.path) # Ok(RootPath) =>
             /\ last.res.ok
             /\ SameResult(last.res, NewIntoDir(fs, Path(last.self.path.abs, Front(last.self.path.comps))))

\* C4 amended: parent_dir makes no filesystem call; applied to an existing
\* path value whose wrapped path is, component by component, the canonical
\* absolute path of its entry (every value of new, and a mock of such a
\* path) it returns None exactly for the root and otherwise Some(d) with d
\* equal to what PathAbs::new(parent).into_dir() yields.
C4_ParentDir ==
    last.op = "parent_dir" =>
        /\ last.sys = 0
        /\ Exists(fs, last.self.path) /\ IsCanonical(fs, Components(last.self.path)) =>
             /\ last.res.ok <=> ~PathEq(last.self.path, RootPath)
             /\ last.res.ok =>
                  /\ NewIntoDir(fs, Parent(last.self.path)).ok
                  /\ PathEq(NewIntoDir(fs, Parent(last.self.path)).path, last.res.path)
                  /\ held = Value("dir", last.res.path, last.self.mock)

\* parent_dir of a PathFile that came of a mock of a canonical absolute path
\* two levels down
C4_Witness ==
    /\ last.op = "parent_dir" /\ last.res.ok
    /\ last.self.mock /\ last.self.ty = "file"
    /\ IsCanonical(fs, Components(last.self.path))
    /\ Len(last.self.path.comps) = 2

\* C5 as stated: mock(x) never equals what new(x) returns.
C5_Original ==
    last.op = "mock" /\ PathAbs_new(fs, last.arg).ok =>
        ~PathEq(held.path, PathAbs_new(fs, last.arg).path)

\* C5 amended: mock(x) differs from what new(x) returns whenever x is not
\* already, component by component, the canonical absolute path (every
\* relative x, every x through ".." or a symbolic link); when x is the
\* canonical absolute path the two are equal.
C5_MockDiffers ==
    last.op = "mock" /\ PathAbs_new(fs, last.arg).ok =>
        /\ held = Value("abs", last.arg, TRUE)
        /\ ~last.arg.abs => ~PathEq(held.path, PathAbs_new(fs, last.arg).path)
        /\ PathEq(held.path, PathAbs_new(fs, last.arg).path)
             <=> IsCanonical(fs, Path(last.arg.abs, DropCurDir(last.arg.comps)))

\* mock of the canonical absolute path of an existing file: equal to new's
C5_Witness ==
    /\ last.op = "mock" /\ IsFile(fs, last.arg)
    /\ PathAbs_new(fs, last.arg) = Ok(held.path)
    /\ Len(held.path.comps) = 2

\* C10: without mock and on a filesystem not modified since the chain of
\* calls began, every value held names an absolute path that exists, every
\* PathFile a regular file and every PathDir a directory, the PathDir values
\* of parent_dir included.
C10_HeldValid ==
    held.ty # "none" /\ ~held.mock /\ ~stale =>
        /\ held.path.abs
        /\ Exists(fs, held.path)
        /\ held.ty = "file" => IsFile(fs, held.path)
        /\ held.ty = "dir" => IsDir(fs, held.path)

\* a PathDir that parent_dir built from a PathDir
C10_Witness ==
    /\ last.op = "parent_dir" /\ last.res.ok /\ last.self.ty = "dir"
    /\ held.ty = "dir" /\ ~held.mock /\ ~stale

\* the listing has reported every entry and the cursor is still held
Exhausted == lister.open /\ lister.remaining = {}
\* the node of the listed directory, and of its child x
DirNode == lister.dir.path.comps
ChildNode(x) == DirNode \o <<x>>
ItemNames == {lister.items[i].name : i \in 1..Len(lister.items)}

\* C6: on a filesystem not changed since list was called, the listing
\* yields exactly one item per direct child and none for anything else; the item
\* of a regular file is File of the child's own path and the item of a
\* subdirectory is Dir of the child's own path, whatever the order.
C6_ListChildren ==
    Exhausted /\ lister.clean =>
        /\ Len(lister.items) = Cardinality({x \in Names : Kind(fs, ChildNode(x)) # "none"})
        /\ ItemNames = {x \in Names : Kind(fs, ChildNode(x)) # "none"}
        /\ \A i \in 1..Len(lister.items) :
             LET it == lister.items[i]
             IN  Kind(fs, ChildNode(it.name)) \in {"file", "dir"} =>
                    /\ it.ok
                    /\ it.ty = Kind(fs, ChildNode(it.name))
                    /\ it.path = Path(TRUE, ChildNode(it.name))

\* a listing of a directory with a file, a subdirectory and a grandchild
C6_Witness ==
    /\ Exhausted /\ lister.clean
    /\ \E i, j \in 1..Len(lister.items) :
         /\ lister.items[i].ty = "file" /\ lister.items[j].ty = "dir"
         /\ \E y \in Names : Kind(fs, ChildNode(lister.items[j].name) \o <<y>>) # "none"

Intact(x) == x \notin lister.disturbed

Checked(f, ty, p) ==
    /\ Exists(f, p)
    /\ IsCanonical(f, Components(p))
    /\ ty = "file" => IsFile(f, p)
    /\ ty = "dir" => IsDir(f, p)

====
